---------------------------- MODULE Spec2Model ----------------------------
(***************************************************************************)
(* lucetc/src/compiler.rs: Compiler::new, Compiler::object_file,           *)
(* Compiler::cranelift_funcs and the write_* helpers, as a state machine.  *)
(* One compilation is one behaviour: the caller's arguments are fixed in   *)
(* Init, every statement that calls into a collaborator is one step, and   *)
(* the collaborator's answer (accept / reject, the compiled code and its   *)
(* trap sites) is chosen by \E at that step.                               *)
(***************************************************************************)
EXTENDS Naturals, Sequences, FiniteSets, TLC

\* ------------------------------------------------------------------ bounds
MaxImports == 1     \* imported functions of the wasm module
MaxFuncs == 2       \* function bodies of the wasm module
MaxCodeLen == 2     \* bytes of native code the backend emits for one body

\* ------------------------------------------------------- program constants
StartFuncDataSize == 8
FunctionSpecPlaceholder == 0

VARIABLES
    pc,             \* the statement about to run
    wasm,           \* wasm_binary, summarised: what the module declares
    validator,      \* the `validator: &Option<Validator>` argument
    validatorsRun,  \* history: the validators consulted, in order
    module_info,    \* ModuleInfo, filled by translate_module
    clif_module,    \* ClifModule<FaerieBackend>: declarations and definitions
    decls,          \* ModuleDecls
    body_ix,        \* position of the `for` loop over function_bodies()
    clif_context,   \* ClifContext of the body being compiled
    compiled,       \* `compiled`: what define_function(_bytes) returned
    function_manifest,
    log,            \* history: the calls the running method made, in order
    module_data_len,
    table_len,
    funcs,          \* cranelift_funcs: the map of translated functions
    result,         \* what the call returned to the caller
    obj             \* the ObjectFile (or CraneliftFuncs) handed to the caller

vars == <<pc, wasm, validator, validatorsRun, module_info, clif_module, decls,
          body_ix, clif_context, compiled, function_manifest, log,
          module_data_len, table_len, funcs, result, obj>>

\* ------------------------------------------------------------- null values
\* Option<FuncIndex>: the start function of the module
NoStart == [some |-> FALSE, ix |-> 0]
StartAt(ix) == [some |-> TRUE, ix |-> ix]
NoInfo == [translated |-> FALSE]
NoModule == [exists |-> FALSE]
NoDecls == [exists |-> FALSE]
NoContext == [translated |-> FALSE]
NoCompiled == [code_length |-> 0, traps |-> <<>>, present |-> FALSE]
NoManifest == [built |-> FALSE, entries |-> <<>>]
NoResult == [returned |-> FALSE]
NoObject == [exists |-> FALSE]


\* ---------------------------------------------------------------- symbols
\* decls: the symbol the declaration directory assigns to a module function.
\* Function indices follow the wasm index space: imports first, then bodies.
FuncSymbol(w, ix) ==
    IF ix < w.imports THEN "import_" \o ToString(ix)
    ELSE "guest_func_" \o ToString(ix)

\* runtime: the support functions Runtime::lucet binds.
RuntimeFuncs == <<"lucet_vmctx_current_memory", "lucet_vmctx_grow_memory">>

STACK_PROBE_SYM == "lucet_probestack"
MODULE_DATA_SYM == "lucet_module_data"
TABLE_SYM == "lucet_tables"
START_SYM == "guest_start"

\* traps::trap_sym_for_func
trap_sym_for_func(func_name) == "lucet_trap_table_" \o func_name

\* traps::translate_trapcode: cranelift's trap code to lucet_module's.
translate_trapcode(code) ==
    CASE code = "HeapOutOfBounds" -> "HeapOutOfBounds"
      [] code = "UnreachableCodeReached" -> "Unreachable"
      [] code = "StackOverflow" -> "StackOverflow"

\* The trap codes the backend reports for compiled wasm bodies.
ClifTrapCodes == {"HeapOutOfBounds"}

\* stack_probe::STACK_PROBE_BINARY (its length) and stack_probe::trap_sites()
ProbeCodeLen == 43
ProbeTrapSites ==
    << [offset |-> 10, code |-> "StackOverflow"],
       [offset |-> 34, code |-> "StackOverflow"] >>

\* ------------------------------------------------------------ input space
\* What a wasm binary can declare.
WasmModules ==
    { [imports |-> ni, bodies |-> nb, start |-> st, table |-> tb] :
        ni \in 0..MaxImports, nb \in 0..MaxFuncs,
        st \in {NoStart} \cup { StartAt(ix) : ix \in 0..(MaxImports + MaxFuncs - 1) },
        tb \in BOOLEAN }

WellFormed(w) == w.start = NoStart \/ w.start.ix < w.imports + w.bodies

RECURSIVE SortedSeq(_)
SortedSeq(S) ==
    IF S = {} THEN <<>>
    ELSE LET m == CHOOSE x \in S : \A y \in S : x <= y
         IN <<m>> \o SortedSeq(S \ {m})

\* The trap sites the backend can report for code of length n: at most one per
\* code offset, sorted by offset, each with one of the backend's trap codes.
TrapSiteSeqs(n) ==
    UNION { { [k \in 1..Cardinality(S) |->
                 [offset |-> SortedSeq(S)[k], code |-> c[SortedSeq(S)[k]]]] :
              c \in [S -> ClifTrapCodes] } :
            S \in SUBSET (0..(n - 1)) }

\* What define_function can return for one body.
CompileOutcomes ==
    UNION { { [present |-> TRUE, code_length |-> n, traps |-> t] :
              t \in TrapSiteSeqs(n) } : n \in 1..MaxCodeLen }

\* ------------------------------------------------------------ control flow
\* A reordering: the module is validated before the target is resolved.
NewSteps_ValidateFirst ==
    << "validate", "target_isa", "translate_module", "faerie_builder",
       "module_decls" >>

\* Compiler::new, statement by statement.
NewSteps ==
    << "target_isa", "validate", "translate_module", "faerie_builder",
       "module_decls" >>

\* The body of the `for` loop of object_file.
LoopSteps == << "translate", "define_function", "trap_table" >>

\* A reordering: the metadata blob is written before the stack probe exists.
TailSteps_MetadataFirst ==
    << "module_data", "probe_declare", "probe_define", "probe_trap_table",
       "startfunc_data", "table_data", "function_manifest", "finish" >>

\* object_file after the loop.
TailSteps ==
    << "probe_declare", "probe_define", "probe_trap_table", "module_data",
       "startfunc_data", "table_data", "function_manifest", "finish" >>

IndexOf(seq, s) == CHOOSE k \in 1..Len(seq) : seq[k] = s

\* The statement after s in seq, or `last` when s is the final one.
StepAfter(seq, s, last) ==
    IF IndexOf(seq, s) = Len(seq) THEN last ELSE seq[IndexOf(seq, s) + 1]

\* `?` / return Err(..): the call returns at once.  object_file and
\* cranelift_funcs take self by value, so the Compiler, its builder and its
\* declarations are dropped with the error.
Fail(error, symbol) ==
    /\ pc' = "returned"
    /\ result' = [returned |-> TRUE, ok |-> FALSE, error |-> error, symbol |-> symbol]
    /\ clif_module' = NoModule
    /\ decls' = NoDecls
    /\ clif_context' = NoContext
    /\ compiled' = NoCompiled
    /\ function_manifest' = NoManifest
    /\ obj' = NoObject
    /\ module_data_len' = 0
    /\ table_len' = 0
    /\ funcs' = {}
    /\ UNCHANGED <<wasm, validator, module_info, body_ix>>

Logged(entry) == log' = Append(log, entry)

\* Error::FunctionTranslation { symbol, source }
FunctionTranslation(symbol) == [error |-> "FunctionTranslation", symbol |-> symbol]

\* A slip: the definition failure reported under the translation variant.
FunctionDefinition_AsTranslation(symbol) ==
    [error |-> "FunctionTranslation", symbol |-> symbol]

\* Error::FunctionDefinition { symbol, source }
FunctionDefinition(symbol) == [error |-> "FunctionDefinition", symbol |-> symbol]

\* ---------------------------------------------------------------- Init
Init ==
    /\ pc = NewSteps[1]
    /\ wasm \in { w \in WasmModules : WellFormed(w) }
    /\ validator \in {"None", "Some"}
    /\ validatorsRun = <<>>
    /\ module_info = NoInfo
    /\ clif_module = NoModule
    /\ decls = NoDecls
    /\ body_ix = 0
    /\ clif_context = NoContext
    /\ compiled = NoCompiled
    /\ function_manifest = NoManifest
    /\ log = <<>>
    /\ module_data_len = 0
    /\ table_len = 0
    /\ funcs = {}
    /\ result = NoResult
    /\ obj = NoObject

\* ------------------------------------------------------------ Compiler::new
\* let isa = Self::target_isa(..)?  -- cpu_features.isa_builder(target)?
NewTargetIsa ==
    /\ pc = "target_isa"
    /\ \E supported \in BOOLEAN :
         /\ Logged([op |-> "target_isa", sym |-> "", ok |-> supported])
         /\ IF supported
            THEN /\ pc' = StepAfter(NewSteps, "target_isa", "constructed")
                 /\ UNCHANGED <<wasm, validator, module_info, clif_module, decls,
                                body_ix, clif_context, compiled,
                                function_manifest, module_data_len,
                                table_len, funcs, result, obj>>
            ELSE Fail("TargetConfiguration", "")
    /\ UNCHANGED validatorsRun

\* A slip: the configured validator is ignored.
ValidatorFor_Baseline(v) == "wasmparser"

\* The validator `new` consults: the external one when configured, else
\* wasmparser::validate.
ValidatorFor(v) == IF v = "Some" THEN "lucet_validate" ELSE "wasmparser"

ValidationError(v) == IF v = "Some" THEN "LucetValidation" ELSE "WasmValidation"

NewValidate ==
    /\ pc = "validate"
    /\ validatorsRun' = Append(validatorsRun, ValidatorFor(validator))
    /\ \E accepted \in BOOLEAN :
         /\ Logged([op |-> "validate", sym |-> ValidatorFor(validator), ok |-> accepted])
         /\ IF accepted
            THEN /\ pc' = StepAfter(NewSteps, "validate", "constructed")
                 /\ UNCHANGED <<wasm, validator, module_info, clif_module, decls,
                                body_ix, clif_context, compiled,
                                function_manifest, module_data_len,
                                table_len, funcs, result, obj>>
            ELSE Fail(ValidationError(validator), "")

\* translate_module(wasm_binary, &mut module_info).map_err(..)?
TranslateErrors == {"Input", "Unsupported", "ClifWasmError"}

NewTranslateModule ==
    /\ pc = "translate_module"
    /\ \/ /\ Logged([op |-> "translate_module", sym |-> "", ok |-> TRUE])
          /\ module_info' = [translated |-> TRUE, imports |-> wasm.imports,
                             bodies |-> wasm.bodies, start |-> wasm.start,
                             table |-> wasm.table]
          /\ pc' = StepAfter(NewSteps, "translate_module", "constructed")
          /\ UNCHANGED <<wasm, validator, clif_module, decls, body_ix,
                         clif_context, compiled, function_manifest, module_data_len,
                                table_len, funcs, result, obj>>
       \/ \E e \in TranslateErrors :
            /\ Logged([op |-> "translate_module", sym |-> "", ok |-> FALSE])
            /\ Fail(e, "")
    /\ UNCHANGED validatorsRun

\* ClifModule::new(FaerieBuilder::new(isa, "lucet_guest", .., libcalls)?)
NewFaerieBuilder ==
    /\ pc = "faerie_builder"
    /\ \E ok \in BOOLEAN :
         /\ Logged([op |-> "faerie_builder", sym |-> "", ok |-> ok])
         /\ IF ok
            THEN /\ clif_module' = [exists |-> TRUE, functions |-> <<>>,
                                    data |-> <<>>, finished |-> FALSE]
                 /\ pc' = StepAfter(NewSteps, "faerie_builder", "constructed")
                 /\ UNCHANGED <<wasm, validator, module_info, decls, body_ix,
                                clif_context, compiled, function_manifest,
                                module_data_len, table_len, funcs, result, obj>>
            ELSE Fail("ClifModuleError", "")
    /\ UNCHANGED validatorsRun

\* A function declared in the builder and not (yet) defined.
Declared(name, linkage) ==
    [name |-> name, linkage |-> linkage, compiled |-> NoCompiled]

\* ModuleDecls::new declares every module function (imports, then bodies) and
\* every runtime support function in clif_module.
DeclaredByDecls(info) ==
    [k \in 1..(info.imports + info.bodies) |->
        Declared(FuncSymbol(info, k - 1),
                 IF k - 1 < info.imports THEN "Import" ELSE "Export")]
    \o [k \in 1..Len(RuntimeFuncs) |-> Declared(RuntimeFuncs[k], "Import")]

NewModuleDecls ==
    /\ pc = "module_decls"
    /\ \E ok \in BOOLEAN :
         /\ Logged([op |-> "module_decls", sym |-> "", ok |-> ok])
         /\ IF ok
            THEN /\ decls' = [exists |-> TRUE, info |-> module_info,
                              probe_declared |-> FALSE]
                 /\ clif_module' = [clif_module EXCEPT
                                      !.functions = DeclaredByDecls(module_info)]
                 /\ pc' = StepAfter(NewSteps, "module_decls", "constructed")
                 /\ result' = [returned |-> TRUE, ok |-> TRUE, error |-> "",
                               symbol |-> ""]
                 /\ UNCHANGED <<wasm, validator, module_info, body_ix,
                                clif_context, compiled, function_manifest,
                                module_data_len, table_len, funcs, obj>>
            ELSE Fail("Declaration", "")
    /\ UNCHANGED validatorsRun

\* ----------------------------------------------------- builder operations
\* Position of the function named `name` in the builder (its FuncId).
FuncId(m, name) == CHOOSE k \in 1..Len(m.functions) : m.functions[k].name = name

\* ClifModule::define_function / define_function_bytes
DefineFunction(m, name, c) ==
    [m EXCEPT !.functions[FuncId(m, name)].compiled = c]

\* ClifModule::declare_data followed by define_data
DefineData(m, name, linkage, writable, size, traps, func_addrs) ==
    [m EXCEPT !.data = Append(@, [name |-> name, linkage |-> linkage,
                                   writable |-> writable, size |-> size,
                                   traps |-> traps, func_addrs |-> func_addrs])]

\* size_of::<lucet_module::TrapSite>()
TrapSiteSize == 8

\* A slip: offsets shifted by one.
traps_to_module_traps_OffByOne(traps) ==
    [k \in 1..Len(traps) |->
        [offset |-> traps[k].offset + 1, code |-> translate_trapcode(traps[k].code)]]

\* traps_to_module_traps: one lucet_module::TrapSite per cranelift TrapSite,
\* in order; the Vec is then viewed as bytes.
traps_to_module_traps(traps) ==
    [k \in 1..Len(traps) |->
        [offset |-> traps[k].offset, code |-> translate_trapcode(traps[k].code)]]

\* write_trap_table
write_trap_table(m, trap_bytes, func_name) ==
    DefineData(m, trap_sym_for_func(func_name), "Export", FALSE,
               Len(trap_bytes) * TrapSiteSize, trap_bytes, {})

\* self.module_data()?.serialize()?: the blob, as the list of what it describes.
SerializedModuleData(d) ==
    <<"features">>
    \o [k \in 1..(d.info.imports + d.info.bodies) |-> FuncSymbol(d.info, k - 1)]
    \o (IF d.info.start = NoStart THEN <<>> ELSE <<"start">>)

\* write_module_data
write_module_data(m, module_data_bytes) ==
    DefineData(m, MODULE_DATA_SYM, "Local", TRUE, Len(module_data_bytes), <<>>, {})

\* A slip: the address written is that of function 0, not the start function.
write_startfunc_data_FirstFunc(m, d) ==
    IF d.info.start # NoStart
    THEN DefineData(m, START_SYM, "Export", FALSE, StartFuncDataSize, <<>>,
                    { [offset |-> 0, func |-> FuncSymbol(d.info, 0)] })
    ELSE m

\* A slip: the symbol is written whether or not a start function exists.
write_startfunc_data_Always(m, d) ==
    DefineData(m, START_SYM, "Export", FALSE, StartFuncDataSize, <<>>,
               { [offset |-> 0, func |-> FuncSymbol(d.info, d.info.start.ix)] })

\* write_startfunc_data
write_startfunc_data(m, d) ==
    IF d.info.start # NoStart
    THEN DefineData(m, START_SYM, "Export", FALSE, StartFuncDataSize, <<>>,
                    { [offset |-> 0, func |-> FuncSymbol(d.info, d.info.start.ix)] })
    ELSE m

\* table::write_table_data: the table-data symbol is defined for every module;
\* its length counts the module's tables.
TableLen(d) == IF d.info.table THEN 1 ELSE 0

write_table_data(m, d) ==
    DefineData(m, TABLE_SYM, "Export", FALSE, TableLen(d), <<>>, {})

HasCode(f) == f.compiled.present

\* A variant: only the functions that were compiled are listed.
FunctionManifest_OnlyCompiled(m) ==
    LET fs == SelectSeq(m.functions, HasCode)
    IN [k \in 1..Len(fs) |->
          [symbol |-> fs[k].name,
           code_addr |-> FunctionSpecPlaceholder,
           code_len |-> fs[k].compiled.code_length,
           traps_addr |-> FunctionSpecPlaceholder,
           traps_len |-> FunctionSpecPlaceholder]]

\* A slip: unwrap_or(1) for a function without code.
FunctionManifest_DefaultOne(m) ==
    [k \in 1..Len(m.functions) |->
        [symbol |-> m.functions[k].name,
         code_addr |-> FunctionSpecPlaceholder,
         code_len |-> IF m.functions[k].compiled.present
                      THEN m.functions[k].compiled.code_length ELSE 1,
         traps_addr |-> FunctionSpecPlaceholder,
         traps_len |-> FunctionSpecPlaceholder]]

\* The function manifest: one FunctionSpec per declared function.
FunctionManifest(m) ==
    [k \in 1..Len(m.functions) |->
        [symbol |-> m.functions[k].name,
         code_addr |-> FunctionSpecPlaceholder,
         code_len |-> IF m.functions[k].compiled.present
                      THEN m.functions[k].compiled.code_length ELSE 0,
         traps_addr |-> FunctionSpecPlaceholder,
         traps_len |-> FunctionSpecPlaceholder]]

\* --------------------------------------------------- Compiler::object_file
\* The symbol of the body the loop is at: function_bodies() yields the defined
\* functions in index order.
BodySymbol == FuncSymbol(decls.info, decls.info.imports + body_ix)

FirstStep(d) == IF d.info.bodies > 0 THEN LoopSteps[1] ELSE TailSteps[1]

\* The Compiler struct keeps no validator: the argument, and what `new` did
\* with it, end with `new`.  `log` then records the calls of the next method.
NewFrameEnds ==
    /\ validator' = "OutOfScope"
    /\ validatorsRun' = <<>>

\* The caller invokes object_file(self) on the Compiler `new` returned.
ObjectFileCall ==
    /\ pc = "constructed"
    /\ pc' = FirstStep(decls)
    /\ result' = NoResult
    /\ NewFrameEnds
    /\ log' = << [op |-> "object_file", sym |-> "", ok |-> TRUE] >>
    /\ UNCHANGED <<wasm, module_info, clif_module, decls, body_ix,
                   clif_context, compiled, function_manifest,
                   module_data_len, table_len, funcs, obj>>

\* Where the loop goes after its last statement.
NextBody(d, ix) == IF ix + 1 < d.info.bodies THEN LoopSteps[1] ELSE TailSteps[1]

\* A variant with local recovery: a body that fails translation is skipped.
OfTranslate_Skip ==
    /\ pc = "translate"
    /\ \E ok \in BOOLEAN :
         /\ Logged([op |-> "translate", sym |-> BodySymbol, ok |-> ok])
         /\ IF ok
            THEN /\ clif_context' = [translated |-> TRUE, name |-> BodySymbol]
                 /\ pc' = StepAfter(LoopSteps, "translate", "next_body")
                 /\ UNCHANGED body_ix
            ELSE /\ pc' = NextBody(decls, body_ix)
                 /\ body_ix' = body_ix + 1
                 /\ UNCHANGED clif_context
    /\ UNCHANGED <<wasm, validator, validatorsRun, module_info, clif_module,
                   decls, compiled, function_manifest, module_data_len,
                   table_len, funcs, result, obj>>

\* func_translator.translate(..).map_err(FunctionTranslation { symbol, .. })?
OfTranslate ==
    /\ pc = "translate"
    /\ \E ok \in BOOLEAN :
         /\ Logged([op |-> "translate", sym |-> BodySymbol, ok |-> ok])
         /\ IF ok
            THEN /\ clif_context' = [translated |-> TRUE, name |-> BodySymbol]
                 /\ pc' = StepAfter(LoopSteps, "translate", "next_body")
                 /\ UNCHANGED <<wasm, validator, module_info, clif_module,
                                decls, body_ix, compiled, function_manifest,
                                module_data_len, table_len, funcs, result, obj>>
            ELSE Fail(FunctionTranslation(BodySymbol).error,
                      FunctionTranslation(BodySymbol).symbol)
    /\ UNCHANGED validatorsRun

\* self.clif_module.define_function(..).map_err(FunctionDefinition {..})?
OfDefineFunction ==
    /\ pc = "define_function"
    /\ \/ \E c \in CompileOutcomes :
            /\ Logged([op |-> "define_function", sym |-> BodySymbol, ok |-> TRUE])
            /\ clif_module' = DefineFunction(clif_module, BodySymbol, c)
            /\ compiled' = c
            /\ pc' = StepAfter(LoopSteps, "define_function", "next_body")
            /\ UNCHANGED <<wasm, validator, module_info, decls, body_ix,
                           clif_context, function_manifest, module_data_len,
                           table_len, funcs, result, obj>>
       \/ /\ Logged([op |-> "define_function", sym |-> BodySymbol, ok |-> FALSE])
          /\ Fail(FunctionDefinition(BodySymbol).error,
                  FunctionDefinition(BodySymbol).symbol)
    /\ UNCHANGED validatorsRun

\* write_trap_table(&mut self.clif_module, traps_to_module_traps(..), symbol)?
OfTrapTable ==
    /\ pc = "trap_table"
    /\ \E ok \in BOOLEAN :
         /\ Logged([op |-> "define_data", sym |-> trap_sym_for_func(BodySymbol),
                    ok |-> ok])
         /\ IF ok
            THEN /\ clif_module' =
                      write_trap_table(clif_module,
                                       traps_to_module_traps(compiled.traps),
                                       BodySymbol)
                 /\ pc' = NextBody(decls, body_ix)
                 /\ body_ix' = body_ix + 1
                 /\ clif_context' = NoContext
                 /\ compiled' = NoCompiled
                 /\ UNCHANGED <<wasm, validator, module_info, decls,
                                function_manifest, module_data_len, table_len,
                                funcs, result, obj>>
            ELSE Fail("ClifModuleError", "")
    /\ UNCHANGED validatorsRun

\* What every statement after the loop leaves alone.
TailUnchanged ==
    UNCHANGED <<wasm, validator, validatorsRun, module_info, body_ix,
                clif_context, funcs, result, obj>>

TailNext(s) == StepAfter(TailSteps, s, "returned")

\* stack_probe::declare: the probe is declared as one more function.
ProbeDeclaration == Declared(STACK_PROBE_SYM, "Local")

\* stack_probe::declare(&mut self.decls, &mut self.clif_module)?
OfProbeDeclare ==
    /\ pc = "probe_declare"
    /\ \E ok \in BOOLEAN :
         /\ Logged([op |-> "declare_function", sym |-> STACK_PROBE_SYM, ok |-> ok])
         /\ IF ok
            THEN /\ clif_module' =
                      [clif_module EXCEPT
                         !.functions = Append(@, ProbeDeclaration)]
                 /\ decls' = [decls EXCEPT !.probe_declared = TRUE]
                 /\ pc' = TailNext("probe_declare")
                 /\ UNCHANGED <<compiled, function_manifest, module_data_len,
                                table_len>>
                 /\ TailUnchanged
            ELSE /\ Fail("ClifModuleError", "")
                 /\ UNCHANGED validatorsRun

\* self.clif_module.define_function_bytes(probe_func_id, STACK_PROBE_BINARY,
\*                                        stack_probe::trap_sites())?
OfProbeDefine ==
    /\ pc = "probe_define"
    /\ \E ok \in BOOLEAN :
         /\ Logged([op |-> "define_function", sym |-> STACK_PROBE_SYM, ok |-> ok])
         /\ IF ok
            THEN /\ clif_module' =
                      DefineFunction(clif_module, STACK_PROBE_SYM,
                                     [present |-> TRUE, code_length |-> ProbeCodeLen,
                                      traps |-> ProbeTrapSites])
                 /\ compiled' = [present |-> TRUE, code_length |-> ProbeCodeLen,
                                 traps |-> ProbeTrapSites]
                 /\ pc' = TailNext("probe_define")
                 /\ UNCHANGED <<decls, function_manifest, module_data_len, table_len>>
                 /\ TailUnchanged
            ELSE /\ Fail("ClifModuleError", "")
                 /\ UNCHANGED validatorsRun

\* write_trap_table(.., traps_to_module_traps(&compiled.traps), probe symbol)?
OfProbeTrapTable ==
    /\ pc = "probe_trap_table"
    /\ \E ok \in BOOLEAN :
         /\ Logged([op |-> "define_data", sym |-> trap_sym_for_func(STACK_PROBE_SYM),
                    ok |-> ok])
         /\ IF ok
            THEN /\ clif_module' =
                      write_trap_table(clif_module,
                                       traps_to_module_traps(compiled.traps),
                                       STACK_PROBE_SYM)
                 /\ compiled' = NoCompiled
                 /\ pc' = TailNext("probe_trap_table")
                 /\ UNCHANGED <<decls, function_manifest, module_data_len, table_len>>
                 /\ TailUnchanged
            ELSE /\ Fail("ClifModuleError", "")
                 /\ UNCHANGED validatorsRun

\* let module_data_bytes = self.module_data()?.serialize()?;
\* write_module_data(&mut self.clif_module, module_data_bytes)?
OfModuleData ==
    /\ pc = "module_data"
    /\ \/ /\ Logged([op |-> "serialize_module_data", sym |-> MODULE_DATA_SYM,
                     ok |-> FALSE])
          /\ Fail("Serialization", "")
          /\ UNCHANGED validatorsRun
       \/ \E ok \in BOOLEAN :
            /\ log' = log \o << [op |-> "serialize_module_data",
                                 sym |-> MODULE_DATA_SYM, ok |-> TRUE],
                                [op |-> "define_data", sym |-> MODULE_DATA_SYM,
                                 ok |-> ok] >>
            /\ IF ok
               THEN /\ module_data_len' = Len(SerializedModuleData(decls))
                    /\ clif_module' =
                         write_module_data(clif_module, SerializedModuleData(decls))
                    /\ pc' = TailNext("module_data")
                    /\ UNCHANGED <<decls, compiled, function_manifest, table_len>>
                    /\ TailUnchanged
               ELSE /\ Fail("ClifModuleError", "")
                    /\ UNCHANGED validatorsRun

\* write_startfunc_data(&mut self.clif_module, &self.decls)?
OfStartFuncData ==
    /\ pc = "startfunc_data"
    /\ \/ /\ log' = IF decls.info.start # NoStart
                    THEN Append(log, [op |-> "define_data", sym |-> START_SYM,
                                      ok |-> TRUE])
                    ELSE log
          /\ clif_module' = write_startfunc_data(clif_module, decls)
          /\ pc' = TailNext("startfunc_data")
          /\ UNCHANGED <<decls, compiled, function_manifest, module_data_len,
                         table_len>>
          /\ TailUnchanged
       \/ /\ decls.info.start # NoStart
          /\ Logged([op |-> "define_data", sym |-> START_SYM, ok |-> FALSE])
          /\ Fail("MetadataSerializer", "")
          /\ UNCHANGED validatorsRun

\* let table_len = write_table_data(&mut self.clif_module, &self.decls)?
OfTableData ==
    /\ pc = "table_data"
    /\ \E ok \in BOOLEAN :
         /\ Logged([op |-> "define_data", sym |-> TABLE_SYM, ok |-> ok])
         /\ IF ok
            THEN /\ clif_module' = write_table_data(clif_module, decls)
                 /\ table_len' = TableLen(decls)
                 /\ pc' = TailNext("table_data")
                 /\ UNCHANGED <<decls, compiled, function_manifest, module_data_len>>
                 /\ TailUnchanged
            ELSE /\ Fail("ClifModuleError", "")
                 /\ UNCHANGED validatorsRun

\* let function_manifest = self.clif_module.declared_functions().map(..).collect()
OfFunctionManifest ==
    /\ pc = "function_manifest"
    /\ Logged([op |-> "function_manifest", sym |-> "", ok |-> TRUE])
    /\ function_manifest' = [built |-> TRUE, entries |-> FunctionManifest(clif_module)]
    /\ pc' = TailNext("function_manifest")
    /\ UNCHANGED <<clif_module, decls, compiled, module_data_len, table_len>>
    /\ TailUnchanged

\* ClifModule::finish: the builder is consumed, its definitions become the
\* product.
Finish(m) == [functions |-> m.functions, data |-> m.data]

\* ObjectFile::new(self.clif_module.finish(), module_data_len,
\*                 function_manifest, table_len)?
OfFinish ==
    /\ pc = "finish"
    /\ \E ok \in BOOLEAN :
         /\ Logged([op |-> "finish", sym |-> "", ok |-> ok])
         /\ IF ok
            THEN /\ obj' = [exists |-> TRUE, kind |-> "ObjectFile",
                            product |-> Finish(clif_module),
                            module_data_len |-> module_data_len,
                            function_manifest |-> function_manifest.entries,
                            table_len |-> table_len]
                 /\ result' = [returned |-> TRUE, ok |-> TRUE, error |-> "",
                               symbol |-> ""]
                 /\ pc' = TailNext("finish")
                 /\ clif_module' = NoModule
                 /\ decls' = NoDecls
                 /\ function_manifest' = NoManifest
                 /\ module_data_len' = 0
                 /\ table_len' = 0
                 /\ UNCHANGED <<wasm, validator, validatorsRun, module_info,
                                body_ix, clif_context, compiled, funcs>>
            ELSE /\ Fail("ObjectAssembly", "")
                 /\ UNCHANGED validatorsRun

\* ------------------------------------------------ Compiler::cranelift_funcs
CraneliftFuncsCall ==
    /\ pc = "constructed"
    /\ pc' = IF decls.info.bodies > 0 THEN "cf_translate" ELSE "cf_target_isa"
    /\ result' = NoResult
    /\ NewFrameEnds
    /\ log' = << [op |-> "cranelift_funcs", sym |-> "", ok |-> TRUE] >>
    /\ UNCHANGED <<wasm, module_info, clif_module, decls, body_ix,
                   clif_context, compiled, function_manifest,
                   module_data_len, table_len, funcs, obj>>

\* func_translator.translate(..).map_err(FunctionTranslation {..})?;
\* funcs.insert(func.name.clone(), clif_context.func)
CfTranslate ==
    /\ pc = "cf_translate"
    /\ \E ok \in BOOLEAN :
         /\ Logged([op |-> "translate", sym |-> BodySymbol, ok |-> ok])
         /\ IF ok
            THEN /\ funcs' = funcs \cup {BodySymbol}
                 /\ body_ix' = body_ix + 1
                 /\ pc' = IF body_ix + 1 < decls.info.bodies
                          THEN "cf_translate" ELSE "cf_target_isa"
                 /\ UNCHANGED <<wasm, validator, module_info, clif_module, decls,
                                clif_context, compiled, function_manifest,
                                module_data_len, table_len, result, obj>>
            ELSE Fail(FunctionTranslation(BodySymbol).error,
                      FunctionTranslation(BodySymbol).symbol)
    /\ UNCHANGED validatorsRun

\* Ok(CraneliftFuncs::new(funcs, Self::target_isa(..)?)): the arguments are
\* the ones `new` already resolved, so the resolver answers as it did there.
CfTargetIsa ==
    /\ pc = "cf_target_isa"
    /\ Logged([op |-> "target_isa", sym |-> "", ok |-> TRUE])
    /\ obj' = [exists |-> TRUE, kind |-> "CraneliftFuncs", funcs |-> funcs]
    /\ result' = [returned |-> TRUE, ok |-> TRUE, error |-> "", symbol |-> ""]
    /\ pc' = "returned"
    /\ clif_module' = NoModule
    /\ decls' = NoDecls
    /\ funcs' = {}
    /\ UNCHANGED <<wasm, validator, validatorsRun, module_info, body_ix,
                   clif_context, compiled, function_manifest, module_data_len,
                   table_len>>

\* ------------------------------------------------------------ specification
Next ==
    \/ NewTargetIsa
    \/ NewValidate
    \/ NewTranslateModule
    \/ NewFaerieBuilder
    \/ NewModuleDecls
    \/ ObjectFileCall
    \/ OfTranslate
    \/ OfDefineFunction
    \/ OfTrapTable
    \/ OfProbeDeclare
    \/ OfProbeDefine
    \/ OfProbeTrapTable
    \/ OfModuleData
    \/ OfStartFuncData
    \/ OfTableData
    \/ OfFunctionManifest
    \/ OfFinish
    \/ CraneliftFuncsCall
    \/ CfTranslate
    \/ CfTargetIsa

Spec == Init /\ [][Next]_vars

\* ------------------------------------------------------------- vocabulary
HasOp(op) == \E k \in 1..Len(log) : log[k].op = op

InObjectFile == HasOp("object_file")

IsObjectFile == obj.exists /\ obj.kind = "ObjectFile"

Failed == result.returned /\ ~result.ok

\* A call made for a function body of the module (not for the stack probe).
IsBodyOp(e) == e.op \in {"translate", "define_function"} /\ e.sym # STACK_PROBE_SYM

BodyFailed == \E k \in 1..Len(log) : IsBodyOp(log[k]) /\ ~log[k].ok

\* The calls that declare, define or finalize something in the builder.
IsDefOp(e) ==
    e.op \in {"declare_function", "define_function", "define_data",
              "serialize_module_data", "finish"}

DefOps == SelectSeq(log, IsDefOp)

Strip(e) == [op |-> e.op, sym |-> e.sym]

\* The names an object defines: functions with code, and data.
DefinedSymbols(product) ==
    { product.functions[k].name :
        k \in { j \in 1..Len(product.functions) : product.functions[j].compiled.present } }
    \cup { product.data[k].name : k \in 1..Len(product.data) }

Occurrences(entries, sym) ==
    Cardinality({ j \in 1..Len(entries) : entries[j].symbol = sym })

DataNamed(product, name) ==
    { k \in 1..Len(product.data) : product.data[k].name = name }

MinimalModule ==
    wasm.imports = 0 /\ wasm.bodies = 0 /\ ~wasm.table /\ wasm.start = NoStart

\* ------------------------------------------------------------------ claims

\* C1: when translation or definition of a function body fails in
\* object_file, the call has returned an error of one of those two kinds, the
\* builder was never finalized, no ObjectFile exists, and the builder holding
\* the symbols defined so far is gone with the Compiler.
C1_AtomicFailure ==
    (InObjectFile /\ BodyFailed) =>
        /\ pc = "returned"
        /\ Failed
        /\ result.error \in {"FunctionTranslation", "FunctionDefinition"}
        /\ ~HasOp("finish")
        /\ obj = NoObject
        /\ clif_module = NoModule

\* A body failed after an earlier body's code and trap table were defined.
C1_Witness ==
    /\ InObjectFile
    /\ BodyFailed
    /\ pc = "returned"
    /\ \E k \in 1..Len(log) : log[k].op = "define_data" /\ log[k].ok

\* C2 as stated: the manifest lists every symbol the object defines exactly
\* once, and has (#compiled bodies) + 1 entries.
C2_Original ==
    IsObjectFile =>
        /\ \A sym \in DefinedSymbols(obj.product) :
               Occurrences(obj.function_manifest, sym) = 1
        /\ Len(obj.function_manifest) = wasm.bodies + 1

\* C2 amended: the manifest has exactly one entry per function declared in
\* the builder (imports, runtime support functions, bodies, the probe), in
\* declaration order; the entries with code are the bodies and the probe;
\* no data symbol is listed.
C2_ManifestListsDeclaredFunctions ==
    IsObjectFile =>
        LET es == obj.function_manifest
            fs == obj.product.functions
        IN /\ Len(es) = Len(fs)
           /\ \A k \in 1..Len(fs) : Occurrences(es, fs[k].name) = 1
           /\ \A j \in 1..Len(es) : es[j].symbol = fs[j].name
           /\ Len(es) = wasm.imports + Len(RuntimeFuncs) + wasm.bodies + 1
           /\ Cardinality({ j \in 1..Len(es) : es[j].code_len > 0 }) = wasm.bodies + 1
           /\ \A k \in 1..Len(obj.product.data) :
                  Occurrences(es, obj.product.data[k].name) = 0

\* An object of a module with an imported function and a body.
C2_Witness == IsObjectFile /\ wasm.imports > 0 /\ wasm.bodies > 0

\* C3: the object defines guest_start exactly when the module declares a start
\* function, once, exported, 8 bytes, with one function address at offset 0
\* that names the start function's own symbol.
C3_StartFunctionPresence ==
    IsObjectFile =>
        LET starts == DataNamed(obj.product, "guest_start")
        IN /\ (starts # {}) <=> wasm.start.some
           /\ Cardinality(starts) <= 1
           /\ \A k \in starts :
                /\ obj.product.data[k].size = 8
                /\ obj.product.data[k].linkage = "Export"
                /\ obj.product.data[k].func_addrs =
                     { [offset |-> 0,
                        func |-> obj.product.functions[wasm.start.ix + 1].name] }

\* An object whose start function is not function 0.
C3_Witness == IsObjectFile /\ wasm.start.some /\ wasm.start.ix > 0

\* C4 as stated: the object of a minimal module defines only the probe, the
\* probe's trap table and the module metadata, and its manifest has one entry.
C4_Original ==
    (IsObjectFile /\ MinimalModule) =>
        /\ DefinedSymbols(obj.product) =
             { STACK_PROBE_SYM, trap_sym_for_func(STACK_PROBE_SYM),
               MODULE_DATA_SYM }
        /\ Len(obj.function_manifest) = 1

\* C4 amended: the object of a minimal module defines the probe, the probe's
\* trap table, the module metadata and the table-data symbol, nothing else;
\* the probe is the only manifest entry with code, the other entries being
\* the zero-length entries of the runtime support functions.
C4_MinimalModule ==
    (IsObjectFile /\ MinimalModule) =>
        LET es == obj.function_manifest
        IN /\ DefinedSymbols(obj.product) =
                { STACK_PROBE_SYM, trap_sym_for_func(STACK_PROBE_SYM),
                  MODULE_DATA_SYM, TABLE_SYM }
           /\ { es[j].symbol : j \in { i \in 1..Len(es) : es[i].code_len > 0 } }
                = { STACK_PROBE_SYM }
           /\ \A j \in 1..Len(es) :
                  es[j].code_len = 0 =>
                      \E r \in 1..Len(RuntimeFuncs) : es[j].symbol = RuntimeFuncs[r]
           /\ Occurrences(es, STACK_PROBE_SYM) = 1

C4_Witness == IsObjectFile /\ MinimalModule

\* C5: nothing of Compiler::new runs before the target is resolved, and a
\* TargetConfiguration failure returns with no validator consulted, no module
\* translated, no builder and no declarations made.
C5_FeatureRejectionFirst ==
    /\ \A k \in 1..Len(log) :
           log[k].op \in {"validate", "translate_module", "faerie_builder",
                          "module_decls"}
               => (k > 1 /\ log[1].op = "target_isa" /\ log[1].ok)
    /\ (Failed /\ result.error = "TargetConfiguration") =>
           /\ Len(log) = 1
           /\ validatorsRun = <<>>
           /\ module_info = NoInfo
           /\ clif_module = NoModule
           /\ decls = NoDecls

C5_Witness == Failed /\ result.error = "TargetConfiguration"

\* Each manifest entry describes the function declared at its position: a
\* placeholder address, and the compiled code's length or 0 without code.
ManifestDescribes(es, fs) ==
    /\ Len(es) = Len(fs)
    /\ \A k \in 1..Len(es) :
         /\ es[k].symbol = fs[k].name
         /\ es[k].code_addr = 0
         /\ fs[k].compiled.present => es[k].code_len = fs[k].compiled.code_length
         /\ (es[k].code_len = 0) <=> ~fs[k].compiled.present

\* C6 as stated: the manifest's offsets and lengths are read after the
\* builder has been finalized, the length being 0 exactly without code.
C6_Original ==
    /\ function_manifest.built =>
           /\ HasOp("finish")
           /\ \A k \in 1..Len(function_manifest.entries) :
                  (function_manifest.entries[k].code_len = 0)
                      <=> ~clif_module.functions[k].compiled.present
    /\ IsObjectFile => ManifestDescribes(obj.function_manifest, obj.product.functions)

\* C6 amended: the manifest is collected from the builder's declared functions
\* before the builder is finalized; every entry carries the placeholder
\* address 0, and a length that is 0 exactly for a function without compiled
\* code and the compiled code length otherwise.
C6_ManifestBeforeFinish ==
    /\ function_manifest.built =>
           /\ clif_module # NoModule
           /\ ~HasOp("finish")
           /\ ManifestDescribes(function_manifest.entries, clif_module.functions)
    /\ IsObjectFile => ManifestDescribes(obj.function_manifest, obj.product.functions)

\* The manifest is built, with a zero-length and a non-zero-length entry, and
\* the builder is about to be finalized.
C6_Witness ==
    /\ function_manifest.built
    /\ pc = "finish"
    /\ wasm.bodies > 0
    /\ \E k \in 1..Len(function_manifest.entries) :
           function_manifest.entries[k].code_len = 0

\* C7: in the object, every function with code (bodies and the probe) has
\* exactly one data symbol trap_sym_for_func(symbol), exported, holding one
\* fixed-width entry per trap site the backend reported, in the same order, with
\* the same offset, inside the function's code; functions without code have
\* no trap table.
C7_TrapTableCoverage ==
    IsObjectFile =>
        \A k \in 1..Len(obj.product.functions) :
            LET f == obj.product.functions[k]
                tables == DataNamed(obj.product, trap_sym_for_func(f.name))
            IN IF f.compiled.present
               THEN /\ Cardinality(tables) = 1
                    /\ \A t \in tables :
                         LET d == obj.product.data[t]
                         IN /\ d.linkage = "Export"
                            /\ Len(d.traps) = Len(f.compiled.traps)
                            /\ d.size = TrapSiteSize * Len(f.compiled.traps)
                            /\ \A i \in 1..Len(d.traps) :
                                 /\ d.traps[i].offset = f.compiled.traps[i].offset
                                 /\ d.traps[i].offset < f.compiled.code_length
               ELSE tables = {}

\* An object with a body whose trap table has two entries.
C7_Witness ==
    /\ IsObjectFile
    /\ \E k \in 1..Len(obj.product.data) :
         /\ Len(obj.product.data[k].traps) = 2
         /\ obj.product.data[k].name # trap_sym_for_func(STACK_PROBE_SYM)

\* The definition steps of a successful object_file for module w, in order.
ExpectedAssembly(w) ==
    [j \in 1..(2 * w.bodies) |->
        IF j % 2 = 1
        THEN [op |-> "define_function",
              sym |-> FuncSymbol(w, w.imports + ((j - 1) \div 2))]
        ELSE [op |-> "define_data",
              sym |-> trap_sym_for_func(FuncSymbol(w, w.imports + ((j - 1) \div 2)))]]
    \o << [op |-> "declare_function", sym |-> STACK_PROBE_SYM],
          [op |-> "define_function", sym |-> STACK_PROBE_SYM],
          [op |-> "define_data", sym |-> trap_sym_for_func(STACK_PROBE_SYM)],
          [op |-> "serialize_module_data", sym |-> MODULE_DATA_SYM],
          [op |-> "define_data", sym |-> MODULE_DATA_SYM] >>
    \o (IF w.start.some THEN << [op |-> "define_data", sym |-> "guest_start"] >>
        ELSE <<>>)
    \o << [op |-> "define_data", sym |-> TABLE_SYM],
          [op |-> "finish", sym |-> ""] >>

\* C8: a successful object_file made its definitions in the order bodies (code
\* then trap table, body by body), probe code, probe trap table, metadata,
\* start symbol if any, table data, finish; nothing follows finish, and the
\* metadata is serialized only after the probe was declared.
C8_AssemblyOrder ==
    /\ IsObjectFile =>
           [k \in 1..Len(DefOps) |-> Strip(DefOps[k])] = ExpectedAssembly(wasm)
    /\ \A k \in 1..Len(log) : log[k].op = "finish" => k = Len(log)
    /\ \A k \in 1..Len(log) :
           log[k].op = "serialize_module_data" =>
               \E j \in 1..(k - 1) :
                   /\ log[j].op = "declare_function"
                   /\ log[j].sym = STACK_PROBE_SYM
                   /\ log[j].ok

\* A finished object of a module with two bodies and a start function.
C8_Witness == IsObjectFile /\ wasm.bodies = 2 /\ wasm.start.some

\* C9: object_file attempts the bodies in index order, translate then define;
\* a failed attempt is the last call made, and the error returned is
\* FunctionTranslation for a failed translate, FunctionDefinition for a failed
\* define, carrying that body's symbol.
C9_ErrorAttribution ==
    InObjectFile =>
        /\ \A j \in 1..Len(SelectSeq(log, IsBodyOp)) :
             LET e == SelectSeq(log, IsBodyOp)[j]
             IN /\ e.op = (IF j % 2 = 1 THEN "translate" ELSE "define_function")
                /\ e.sym = FuncSymbol(wasm, wasm.imports + ((j - 1) \div 2))
        /\ \A k \in 1..Len(log) :
             (IsBodyOp(log[k]) /\ ~log[k].ok) =>
                 /\ k = Len(log)
                 /\ pc = "returned"
                 /\ Failed
                 /\ result.error = (IF log[k].op = "translate"
                                    THEN "FunctionTranslation"
                                    ELSE "FunctionDefinition")
                 /\ result.symbol = log[k].sym

\* The second body failed definition after the first was compiled.
C9_Witness ==
    /\ InObjectFile
    /\ Failed
    /\ result.error = "FunctionDefinition"
    /\ result.symbol = FuncSymbol(wasm, wasm.imports + 1)

\* C10: translate_module, the builder and the declarations are reached only
\* after exactly one validator accepted the bytes: the external one when
\* configured, the baseline one otherwise; a rejection returns that
\* validator's error with none of the three reached.
C10_ValidationGatesTranslation ==
    /\ Len(validatorsRun) <= 1
    /\ \A k \in 1..Len(log) :
           log[k].op \in {"translate_module", "faerie_builder", "module_decls"} =>
               /\ validatorsRun =
                    << IF validator = "Some" THEN "lucet_validate" ELSE "wasmparser" >>
               /\ \E j \in 1..(k - 1) :
                      /\ log[j].op = "validate"
                      /\ log[j].ok
                      /\ log[j].sym = validatorsRun[1]
    /\ (Failed /\ result.error \in {"LucetValidation", "WasmValidation"}) =>
           /\ result.error = (IF validator = "Some" THEN "LucetValidation"
                              ELSE "WasmValidation")
           /\ ~HasOp("translate_module")
           /\ ~HasOp("faerie_builder")
           /\ ~HasOp("module_decls")
           /\ module_info = NoInfo

\* The module was translated after the configured external validator ran.
C10_Witness == validator = "Some" /\ module_info # NoInfo /\ pc = "faerie_builder"

=============================================================================
